---- MODULE Spec2Model ----
(***************************************************************************)
(* PrometheusMonitor (faustprometheus/monitor.py): a Faust sensor that     *)
(* forwards every lifecycle callback to the baseline faust Monitor and     *)
(* then updates prometheus_client metric objects.                          *)
(*                                                                         *)
(* Strings that end up as label values are sequences of one-character      *)
(* strings, so that the regular expression, strip() and lower() of the     *)
(* source can be computed character by character.                          *)
(***************************************************************************)
EXTENDS Integers, Sequences, FiniteSets, TLC

(***************************************************************************)
(* Bounds of the model.                                                    *)
(***************************************************************************)
MaxCallsAll == 2     \* handler calls per behaviour of Spec
MaxCallsMsg == 4     \* handler calls per behaviour of SpecMsg
MaxCallsSeries == 2  \* handler calls per behaviour of SpecSeries
MaxCallsLatency == 3 \* handler calls per behaviour of SpecLatency
MaxCallsRebalance == 5 \* handler calls per behaviour of SpecRebalance
MaxTime == 2         \* the clock self.time() runs over 0..MaxTime, where it runs
MaxOffset == 2       \* offsets are 1..MaxOffset
MaxCount == 2        \* count(name, n) is called with n in 1..MaxCount
MaxLen == 3          \* length of the free part of a stream short label
MaxCallsInit == 4    \* constructions and calls per behaviour of SpecInit
MaxCallsExport == 4  \* constructions and calls per behaviour of SpecExport

VARIABLES
    counters,        \* Counter metrics: name -> (label values -> value)
    gauges,          \* Gauge metrics:   name -> (label values -> value)
    histograms,      \* Histogram metrics: name -> sequence of observed values
    time,            \* what self.time() returns
    events_runtime,  \* Monitor.events_runtime of the baseline
    messages,        \* the Message objects handed to on_message_in, in order
    tokens,          \* the state tokens the start handlers returned, in order
    ncalls,          \* handler name -> number of calls made so far
    last,            \* the last handler call: name, token, exception raised
    stream,          \* short label of the stream under study (label runs)
    once,            \* _stream_label(stream), when computed
    twice,           \* _stream_label applied to once, when computed
    pc,              \* position of the label run
    metric_counts,   \* Monitor.metric_counts of the baseline: name -> total
    prometheus_client, \* whether the module prometheus_client was imported
    REGISTRY,        \* prometheus_client.REGISTRY: the collectors, in order
    pages,           \* the paths the app serves through app.page(...)
    monitor,         \* the monitor of the app: none, or one with its pm_config
    init_arg,        \* the pm_config argument of the last construction
    exported         \* the last response of the export endpoint

vars == <<counters, gauges, histograms, time, events_runtime, messages,
          tokens, ncalls, last, stream, once, twice, pc, metric_counts,
          prometheus_client, REGISTRY, pages, monitor, init_arg, exported>>

labelVars == <<stream, once, twice, pc>>

processVars == <<prometheus_client, REGISTRY, pages, monitor, init_arg,
                 exported>>

(***************************************************************************)
(* Characters and strings.                                                 *)
(***************************************************************************)
Upper == <<"A","B","C","D","E","F","G","H","I","J","K","L","M",
           "N","O","P","Q","R","S","T","U","V","W","X","Y","Z">>
Lower == <<"a","b","c","d","e","f","g","h","i","j","k","l","m",
           "n","o","p","q","r","s","t","u","v","w","x","y","z">>
Digits == <<"0","1","2","3","4","5","6","7","8","9">>

UpperChars == {Upper[i] : i \in 1..26}

\* the characters \s matches, as far as the model's strings use them
Whitespace == {" ", "\t", "\n", "\r", "\f"}

\* RE_NORMALIZE = re.compile(r'[\<\>:\s]+'): the character class
RE_NORMALIZE == {"<", ">", ":"} \cup Whitespace

RE_NORMALIZE_SUBSTITUTION == "_"

\* the argument of shortlabel.lstrip('Stream:'), a set of characters
StreamPrefixChars == {"S", "t", "r", "e", "a", "m", ":"}

\* str.lower() of one character
lower_char(c) ==
    IF c \in UpperChars
    THEN Lower[CHOOSE i \in 1..26 : Upper[i] = c]
    ELSE c

\* str.lower()
lower(s) == [i \in 1..Len(s) |-> lower_char(s[i])]

\* str.lstrip(chars): drops leading characters that are members of chars
RECURSIVE lstrip(_, _)
lstrip(s, chars) ==
    IF s = <<>> THEN <<>>
    ELSE IF Head(s) \in chars THEN lstrip(Tail(s), chars)
    ELSE s

\* str.rstrip(chars)
RECURSIVE rstrip(_, _)
rstrip(s, chars) ==
    IF s = <<>> THEN <<>>
    ELSE IF s[Len(s)] \in chars THEN rstrip(SubSeq(s, 1, Len(s) - 1), chars)
    ELSE s

\* str.strip(chars)
strip(s, chars) == rstrip(lstrip(s, chars), chars)

\* pattern.sub(substitution, name) for a pattern [class]+ : every maximal
\* run of characters of the class becomes one substitution character
RECURSIVE re_sub(_, _, _, _)
re_sub(class, substitution, name, inRun) ==
    IF name = <<>> THEN <<>>
    ELSE IF Head(name) \in class
         THEN (IF inRun THEN <<>> ELSE <<substitution>>)
              \o re_sub(class, substitution, Tail(name), TRUE)
         ELSE <<Head(name)>> \o re_sub(class, substitution, Tail(name), FALSE)

\* PrometheusMonitor._normalize
_normalize(name) == re_sub(RE_NORMALIZE, RE_NORMALIZE_SUBSTITUTION, name, FALSE)

\* _stream_label without the final lower()
_stream_label_NoLower(shortlabel) ==
    strip(_normalize(lstrip(shortlabel, StreamPrefixChars)), {"_"})

\* PrometheusMonitor._stream_label
_stream_label(shortlabel) ==
    lower(strip(_normalize(lstrip(shortlabel, StreamPrefixChars)), {"_"}))

\* str(n) of a non-negative integer, as prometheus_client makes label values
RECURSIVE str_int(_)
str_int(n) ==
    IF n < 10 THEN <<Digits[n + 1]>>
    ELSE str_int(n \div 10) \o <<Digits[(n % 10) + 1]>>

\* string literals of the source
S_stream_dot == <<"s","t","r","e","a","m",".">>
S_dot_events == <<".","e","v","e","n","t","s">>
S_table_dot == <<"t","a","b","l","e",".">>
S_topic_dot == <<"t","o","p","i","c",".">>
S_Stream_colon == <<"S","t","r","e","a","m",":">>

(***************************************************************************)
(* Inputs of the handlers.                                                 *)
(***************************************************************************)
\* a field of a state token or an argument that is None
None == 0 - 1

Topics == { <<"f","o","o">>, <<"B","a","r">> }
Partitions == {0, 3}
Offsets == 1..MaxOffset
TPs == [topic : Topics, partition : Partitions]
Tables == { <<"t","a","b","l","e","1">>, <<"M","y"," ","T","a","b","l","e">> }
MetricNames == { <<"h","i","t","s">>, <<"C","a","c","h","e",":","M","i","s","s">> }
\* stream.shortlabel of the streams of the app
Streams == { S_Stream_colon \o <<" ","T","o","p","i","c",":"," ","f","o","o">>,
             S_Stream_colon \o <<" ","<","A","N","O","N",">">> }
\* response.status of the responses a view returns; None is no response
Responses == {None, 200, 404}

(***************************************************************************)
(* The metric objects (prometheus_client Counter, Gauge, Histogram).       *)
(***************************************************************************)
CounterNames == {"messages_received", "messages_received_per_topic",
                 "total_events", "total_events_per_stream", "table_operations",
                 "topic_messages_sent", "total_sent_messages",
                 "total_error_messages_sent", "assignment_operations",
                 "http_status_codes"}
GaugeNames == {"active_messages", "messages_received_per_topics_partition",
               "total_active_events", "total_rebalances",
               "total_rebalances_recovering", "metrics_by_name",
               "topic_partition_end_offset", "topic_partition_offset_commited"}
HistogramNames == {"events_runtime_latency", "producer_send_latency",
                   "producer_error_send_latency", "assign_latency",
                   "rebalance_done_consumer_latency", "rebalance_done_latency",
                   "http_latency", "consumer_commit_latency"}
\* the metrics declared with label names; their series appear on first use
Labelled == {"messages_received_per_topic", "total_events_per_stream",
             "table_operations", "topic_messages_sent", "assignment_operations",
             "http_status_codes", "messages_received_per_topics_partition",
             "metrics_by_name", "topic_partition_end_offset",
             "topic_partition_offset_commited"}

\* PrometheusMonitor.ERROR, COMPLETED, KEYS_RETRIEVED, KEYS_UPDATED, KEYS_DELETED
ERROR == <<"e","r","r","o","r">>
COMPLETED == <<"c","o","m","p","l","e","t","e","d">>
KEYS_RETRIEVED == <<"k","e","y","s","_","r","e","t","r","i","e","v","e","d">>
KEYS_UPDATED == <<"k","e","y","s","_","u","p","d","a","t","e","d">>
KEYS_DELETED == <<"k","e","y","s","_","d","e","l","e","t","e","d">>

\* value of the series of metric m with these label values (0 before first use)
Series(m, labels) == IF labels \in DOMAIN m THEN m[labels] ELSE 0

\* metric.labels(...) followed by a write of v
Put(m, labels, v) ==
    [k \in (DOMAIN m) \cup {labels} |-> IF k = labels THEN v ELSE m[k]]

\* Counter.inc() / Counter.labels(...).inc()
Counter_inc(cs, name, labels) ==
    [cs EXCEPT ![name] = Put(@, labels, Series(@, labels) + 1)]

\* Gauge.inc(amount) / Gauge.labels(...).inc(amount)
Gauge_inc(gs, name, labels, amount) ==
    [gs EXCEPT ![name] = Put(@, labels, Series(@, labels) + amount)]

\* Gauge.dec()
Gauge_dec(gs, name, labels) ==
    [gs EXCEPT ![name] = Put(@, labels, Series(@, labels) - 1)]

\* Gauge.labels(...).set(value)
Gauge_set(gs, name, labels, value) ==
    [gs EXCEPT ![name] = Put(@, labels, value)]

\* Histogram.observe(value): the observations, in order
Histogram_observe(hs, name, value) ==
    [hs EXCEPT ![name] = Append(@, value)]

(***************************************************************************)
(* Time helpers of the baseline Monitor.                                   *)
(***************************************************************************)
\* Monitor.secs_since(start_time) == self.time() - start_time
secs_since(start_time) == time - start_time

\* Monitor.secs_to_ms(timestamp) == timestamp * 1000.0
secs_to_ms(timestamp) == timestamp * 1000

\* Monitor.ms_since(start_time)
ms_since(start_time) == secs_to_ms(secs_since(start_time))

(***************************************************************************)
(* Bookkeeping shared by the handlers.                                     *)
(***************************************************************************)
Ops == {"on_message_in", "on_message_out", "on_stream_event_in",
        "on_stream_event_out", "on_table_get", "on_table_set", "on_table_del",
        "on_commit_initiated", "on_commit_completed", "on_send_initiated",
        "on_send_completed", "on_send_error", "on_assignment_start",
        "on_assignment_error", "on_assignment_completed", "on_rebalance_start",
        "on_rebalance_return", "on_rebalance_end", "count", "on_tp_commit",
        "track_tp_end_offset", "on_web_request_start", "on_web_request_end",
        "__init__", "metrics_handler"}

\* a call of handler op on state token i (0: none) that raised exc, made
\* when the clock showed self.time(); order tells which of the baseline's
\* handler ("super") and the metric updates ("metrics") the handler runs first
CalledInOrder(op, i, exc, order) ==
    /\ ncalls' = [ncalls EXCEPT ![op] = @ + 1]
    /\ last' = [op |-> op, token |-> i, exc |-> exc, now |-> time,
                order |-> order]

\* a handler whose first statement is super().<handler>(...)
Called(op, i, exc) == CalledInOrder(op, i, exc, <<"super", "metrics">>)

\* the state token a start handler returns
NewToken(kind) ==
    [kind |-> kind, time_start |-> time, time_return |-> None,
     time_end |-> None, status_code |-> None, trace |-> <<>>]

\* indexes of the tokens a start handler of this kind returned
TokensOf(kind) == {i \in DOMAIN tokens : tokens[i].kind = kind}

(***************************************************************************)
(* Messages and stream events.                                             *)
(***************************************************************************)
\* on_message_in that forgets the per-topic counter
on_message_in_NoTopic(tp, offset) ==
    /\ messages' = Append(messages,
                          [tp |-> tp, offset |-> offset, time_in |-> time])
    /\ counters' = Counter_inc(counters, "messages_received", <<>>)
    /\ gauges' = Gauge_set(
                     Gauge_inc(gauges, "active_messages", <<>>, 1),
                     "messages_received_per_topics_partition",
                     <<tp.topic, str_int(tp.partition)>>, offset)
    /\ Called("on_message_in", 0, "None")
    /\ UNCHANGED <<histograms, time, metric_counts, events_runtime, tokens>>

\* on_message_in that keeps the highest offset seen instead of the last
on_message_in_MaxOffset(tp, offset) ==
    /\ messages' = Append(messages,
                          [tp |-> tp, offset |-> offset, time_in |-> time])
    /\ counters' = Counter_inc(
                     Counter_inc(counters, "messages_received", <<>>),
                     "messages_received_per_topic", <<tp.topic>>)
    /\ LET key == <<tp.topic, str_int(tp.partition)>>
           old == Series(gauges["messages_received_per_topics_partition"], key)
       IN gauges' = Gauge_set(
                     Gauge_inc(gauges, "active_messages", <<>>, 1),
                     "messages_received_per_topics_partition",
                     key, IF old > offset THEN old ELSE offset)
    /\ Called("on_message_in", 0, "None")
    /\ UNCHANGED <<histograms, time, metric_counts, events_runtime, tokens>>

on_message_in(tp, offset) ==
    /\ messages' = Append(messages,
                          [tp |-> tp, offset |-> offset, time_in |-> time])
    /\ counters' = Counter_inc(
                     Counter_inc(counters, "messages_received", <<>>),
                     "messages_received_per_topic", <<tp.topic>>)
    /\ gauges' = Gauge_set(
                     Gauge_inc(gauges, "active_messages", <<>>, 1),
                     "messages_received_per_topics_partition",
                     <<tp.topic, str_int(tp.partition)>>, offset)
    /\ Called("on_message_in", 0, "None")
    /\ UNCHANGED <<histograms, time, metric_counts, events_runtime, tokens>>

\* on_message_out that forgets to decrement the gauge
on_message_out_NoDec(message) ==
    /\ message \in DOMAIN messages
    /\ Called("on_message_out", 0, "None")
    /\ UNCHANGED <<counters, gauges, histograms, time, metric_counts,
                   events_runtime,
                   messages, tokens>>

\* message is a Message that on_message_in has stamped with time_in
on_message_out(message) ==
    /\ message \in DOMAIN messages
    /\ gauges' = Gauge_dec(gauges, "active_messages", <<>>)
    /\ Called("on_message_out", 0, "None")
    /\ UNCHANGED <<counters, histograms, time, metric_counts,
                   events_runtime, messages, tokens>>

on_stream_event_in(tp, offset, shortlabel) ==
    /\ tokens' = Append(tokens, NewToken("stream_event"))
    /\ counters' = Counter_inc(
                     Counter_inc(counters, "total_events", <<>>),
                     "total_events_per_stream",
                     <<S_stream_dot \o _stream_label(shortlabel) \o S_dot_events>>)
    /\ gauges' = Gauge_inc(gauges, "total_active_events", <<>>, 1)
    /\ Called("on_stream_event_in", Len(tokens) + 1, "None")
    /\ UNCHANGED <<histograms, time, metric_counts, events_runtime, messages>>

\* state is a token of on_stream_event_in, or 0 for state=None: the baseline
\* then records nothing and events_runtime[-1] is whatever was recorded last
on_stream_event_out(state) ==
    /\ state \in TokensOf("stream_event") \cup {0}
    /\ LET runtime == IF state = 0 THEN events_runtime
                      ELSE Append(events_runtime,
                                  time - tokens[state].time_start)
       IN /\ events_runtime' = runtime
          /\ gauges' = Gauge_dec(gauges, "total_active_events", <<>>)
          /\ IF runtime = <<>>
             THEN /\ UNCHANGED histograms
                  /\ Called("on_stream_event_out", state, "IndexError")
             ELSE /\ histograms' = Histogram_observe(
                        histograms, "events_runtime_latency",
                        secs_to_ms(runtime[Len(runtime)]))
                  /\ Called("on_stream_event_out", state, "None")
    /\ tokens' = IF state = 0 THEN tokens
                 ELSE [tokens EXCEPT ![state].time_end = time,
                                     ![state].trace = Append(@, "out")]
    /\ UNCHANGED <<counters, time, metric_counts, messages>>

(***************************************************************************)
(* Tables.                                                                 *)
(***************************************************************************)
on_table_get(table) ==
    /\ counters' = Counter_inc(counters, "table_operations",
                               <<S_table_dot \o table, KEYS_RETRIEVED>>)
    /\ Called("on_table_get", 0, "None")
    /\ UNCHANGED <<gauges, histograms, time, metric_counts,
                   events_runtime, messages, tokens>>

\* on_table_set that counts the update as a retrieval
on_table_set_AsRetrieved(table) ==
    /\ counters' = Counter_inc(counters, "table_operations",
                               <<S_table_dot \o table, KEYS_RETRIEVED>>)
    /\ Called("on_table_set", 0, "None")
    /\ UNCHANGED <<gauges, histograms, time, metric_counts,
                   events_runtime, messages, tokens>>

on_table_set(table) ==
    /\ counters' = Counter_inc(counters, "table_operations",
                               <<S_table_dot \o table, KEYS_UPDATED>>)
    /\ Called("on_table_set", 0, "None")
    /\ UNCHANGED <<gauges, histograms, time, metric_counts,
                   events_runtime, messages, tokens>>

on_table_del(table) ==
    /\ counters' = Counter_inc(counters, "table_operations",
                               <<S_table_dot \o table, KEYS_DELETED>>)
    /\ Called("on_table_del", 0, "None")
    /\ UNCHANGED <<gauges, histograms, time, metric_counts,
                   events_runtime, messages, tokens>>

(***************************************************************************)
(* Consumer commit and producer send: the state token is the start time.   *)
(***************************************************************************)
\* inherited from the baseline: returns self.time()
on_commit_initiated ==
    /\ tokens' = Append(tokens, NewToken("commit"))
    /\ Called("on_commit_initiated", Len(tokens) + 1, "None")
    /\ UNCHANGED <<counters, gauges, histograms, time, metric_counts,
                   events_runtime, messages>>

on_commit_completed(state) ==
    /\ state \in TokensOf("commit")
    /\ histograms' = Histogram_observe(histograms, "consumer_commit_latency",
                                       ms_since(tokens[state].time_start))
    /\ tokens' = [tokens EXCEPT ![state].trace = Append(@, "completed")]
    /\ Called("on_commit_completed", state, "None")
    /\ UNCHANGED <<counters, gauges, time, metric_counts,
                   events_runtime, messages>>

\* on_send_initiated that counts the message as sent already
on_send_initiated_CountsSent(topic) ==
    /\ counters' = Counter_inc(
                      Counter_inc(counters, "topic_messages_sent",
                                  <<S_topic_dot \o topic>>),
                      "total_sent_messages", <<>>)
    /\ tokens' = Append(tokens, NewToken("send"))
    /\ CalledInOrder("on_send_initiated", Len(tokens) + 1, "None",
                     <<"metrics", "super">>)
    /\ UNCHANGED <<gauges, histograms, time, metric_counts,
                   events_runtime, messages>>

\* the counter is incremented first; the return value is that of
\* super().on_send_initiated(...)
on_send_initiated(topic) ==
    /\ counters' = Counter_inc(counters, "topic_messages_sent",
                               <<S_topic_dot \o topic>>)
    /\ tokens' = Append(tokens, NewToken("send"))
    /\ CalledInOrder("on_send_initiated", Len(tokens) + 1, "None",
                     <<"metrics", "super">>)
    /\ UNCHANGED <<gauges, histograms, time, metric_counts,
                   events_runtime, messages>>

on_send_completed(state) ==
    /\ state \in TokensOf("send")
    /\ counters' = Counter_inc(counters, "total_sent_messages", <<>>)
    /\ histograms' = Histogram_observe(histograms, "producer_send_latency",
                                       ms_since(tokens[state].time_start))
    /\ tokens' = [tokens EXCEPT ![state].trace = Append(@, "completed")]
    /\ Called("on_send_completed", state, "None")
    /\ UNCHANGED <<gauges, time, metric_counts, events_runtime, messages>>

on_send_error(state) ==
    /\ state \in TokensOf("send")
    /\ counters' = Counter_inc(counters, "total_error_messages_sent", <<>>)
    /\ histograms' = Histogram_observe(histograms, "producer_error_send_latency",
                                       ms_since(tokens[state].time_start))
    /\ tokens' = [tokens EXCEPT ![state].trace = Append(@, "error")]
    /\ Called("on_send_error", state, "None")
    /\ UNCHANGED <<gauges, time, metric_counts, events_runtime, messages>>

(***************************************************************************)
(* Partition assignment: the state token is {'time_start': ...}.           *)
(***************************************************************************)
\* inherited from the baseline
on_assignment_start ==
    /\ tokens' = Append(tokens, NewToken("assignment"))
    /\ Called("on_assignment_start", Len(tokens) + 1, "None")
    /\ UNCHANGED <<counters, gauges, histograms, time, metric_counts,
                   events_runtime, messages>>

\* on_assignment_error that forgets the latency observation
on_assignment_error_NoObserve(state) ==
    /\ state \in TokensOf("assignment")
    /\ counters' = Counter_inc(counters, "assignment_operations", <<ERROR>>)
    /\ tokens' = [tokens EXCEPT ![state].trace = Append(@, "error")]
    /\ Called("on_assignment_error", state, "None")
    /\ UNCHANGED <<gauges, histograms, time, metric_counts,
                   events_runtime, messages>>

on_assignment_error(state) ==
    /\ state \in TokensOf("assignment")
    /\ counters' = Counter_inc(counters, "assignment_operations", <<ERROR>>)
    /\ histograms' = Histogram_observe(histograms, "assign_latency",
                                       ms_since(tokens[state].time_start))
    /\ tokens' = [tokens EXCEPT ![state].trace = Append(@, "error")]
    /\ Called("on_assignment_error", state, "None")
    /\ UNCHANGED <<gauges, time, metric_counts, events_runtime, messages>>

on_assignment_completed(state) ==
    /\ state \in TokensOf("assignment")
    /\ counters' = Counter_inc(counters, "assignment_operations", <<COMPLETED>>)
    /\ histograms' = Histogram_observe(histograms, "assign_latency",
                                       ms_since(tokens[state].time_start))
    /\ tokens' = [tokens EXCEPT ![state].trace = Append(@, "completed")]
    /\ Called("on_assignment_completed", state, "None")
    /\ UNCHANGED <<gauges, time, metric_counts, events_runtime, messages>>

(***************************************************************************)
(* Rebalances: the baseline writes time_return / time_end into the token   *)
(* before the monitor reads them.                                          *)
(***************************************************************************)
on_rebalance_start ==
    /\ tokens' = Append(tokens, NewToken("rebalance"))
    /\ gauges' = Gauge_inc(gauges, "total_rebalances", <<>>, 1)
    /\ Called("on_rebalance_start", Len(tokens) + 1, "None")
    /\ UNCHANGED <<counters, histograms, time, metric_counts,
                   events_runtime, messages>>

\* on_rebalance_return that forgets to decrement total_rebalances
on_rebalance_return_NoDec(state) ==
    /\ state \in TokensOf("rebalance")
    /\ LET updated == [tokens[state] EXCEPT !.time_return = time,
                                            !.trace = Append(@, "return")]
       IN /\ tokens' = [tokens EXCEPT ![state] = updated]
          /\ gauges' = Gauge_inc(gauges, "total_rebalances_recovering", <<>>, 1)
          /\ histograms' = Histogram_observe(
                             histograms, "rebalance_done_consumer_latency",
                             ms_since(updated.time_return))
    /\ Called("on_rebalance_return", state, "None")
    /\ UNCHANGED <<counters, time, metric_counts, events_runtime, messages>>

on_rebalance_return(state) ==
    /\ state \in TokensOf("rebalance")
    /\ LET updated == [tokens[state] EXCEPT !.time_return = time,
                                            !.trace = Append(@, "return")]
       IN /\ tokens' = [tokens EXCEPT ![state] = updated]
          /\ gauges' = Gauge_inc(
                         Gauge_dec(gauges, "total_rebalances", <<>>),
                         "total_rebalances_recovering", <<>>, 1)
          /\ histograms' = Histogram_observe(
                             histograms, "rebalance_done_consumer_latency",
                             ms_since(updated.time_return))
    /\ Called("on_rebalance_return", state, "None")
    /\ UNCHANGED <<counters, time, metric_counts, events_runtime, messages>>

\* on_rebalance_end that forgets to decrement total_rebalances_recovering
on_rebalance_end_NoDec(state) ==
    /\ state \in TokensOf("rebalance")
    /\ LET updated == [tokens[state] EXCEPT !.time_end = time,
                                            !.trace = Append(@, "end")]
       IN /\ tokens' = [tokens EXCEPT ![state] = updated]
          /\ histograms' = Histogram_observe(
                             histograms, "rebalance_done_latency",
                             ms_since(updated.time_end))
    /\ Called("on_rebalance_end", state, "None")
    /\ UNCHANGED <<counters, gauges, time, metric_counts,
                   events_runtime, messages>>

on_rebalance_end(state) ==
    /\ state \in TokensOf("rebalance")
    /\ LET updated == [tokens[state] EXCEPT !.time_end = time,
                                            !.trace = Append(@, "end")]
       IN /\ tokens' = [tokens EXCEPT ![state] = updated]
          /\ gauges' = Gauge_dec(gauges, "total_rebalances_recovering", <<>>)
          /\ histograms' = Histogram_observe(
                             histograms, "rebalance_done_latency",
                             ms_since(updated.time_end))
    /\ Called("on_rebalance_end", state, "None")
    /\ UNCHANGED <<counters, time, metric_counts, events_runtime, messages>>

(***************************************************************************)
(* count, offsets, web requests.                                           *)
(***************************************************************************)
\* count that adds one to the gauge whatever the count given
count_IgnoresCount(metric_name, n) ==
    /\ metric_counts' = Put(metric_counts, metric_name,
                            Series(metric_counts, metric_name) + n)
    /\ gauges' = Gauge_inc(gauges, "metrics_by_name", <<metric_name>>, 1)
    /\ Called("count", 0, "None")
    /\ UNCHANGED <<counters, histograms, time, events_runtime, messages, tokens>>

\* the baseline adds count to self.metric_counts[metric_name]
count(metric_name, n) ==
    /\ metric_counts' = Put(metric_counts, metric_name,
                            Series(metric_counts, metric_name) + n)
    /\ gauges' = Gauge_inc(gauges, "metrics_by_name", <<metric_name>>, n)
    /\ Called("count", 0, "None")
    /\ UNCHANGED <<counters, histograms, time, events_runtime, messages, tokens>>

\* the loop of on_tp_commit that stops after the first item
set_offsets_FirstOnly(gs, items) ==
    IF items = <<>> THEN gs
    ELSE Gauge_set(gs, "topic_partition_offset_commited",
                   <<items[1][1].topic, str_int(items[1][1].partition)>>,
                   items[1][2])

\* the loop of on_tp_commit over tp_offsets.items(), in the mapping's order
RECURSIVE set_offsets(_, _)
set_offsets(gs, items) ==
    IF items = <<>> THEN gs
    ELSE set_offsets(
           Gauge_set(gs, "topic_partition_offset_commited",
                     <<items[1][1].topic, str_int(items[1][1].partition)>>,
                     items[1][2]),
           Tail(items))

\* tp_offsets is the sequence of the mapping's items, keys distinct
on_tp_commit(tp_offsets) ==
    /\ gauges' = set_offsets(gauges, tp_offsets)
    /\ Called("on_tp_commit", 0, "None")
    /\ UNCHANGED <<counters, histograms, time, metric_counts,
                   events_runtime, messages, tokens>>

track_tp_end_offset(tp, offset) ==
    /\ gauges' = Gauge_set(gauges, "topic_partition_end_offset",
                           <<tp.topic, str_int(tp.partition)>>, offset)
    /\ Called("track_tp_end_offset", 0, "None")
    /\ UNCHANGED <<counters, histograms, time, metric_counts,
                   events_runtime, messages, tokens>>

\* inherited from the baseline: returns {'time_start': self.time()}
on_web_request_start ==
    /\ tokens' = Append(tokens, NewToken("web_request"))
    /\ Called("on_web_request_start", Len(tokens) + 1, "None")
    /\ UNCHANGED <<counters, gauges, histograms, time, metric_counts,
                   events_runtime, messages>>

\* on_web_request_end that counts a missing response as a success
on_web_request_end_NoFallback(response, state) ==
    /\ state \in TokensOf("web_request")
    /\ LET updated == [tokens[state] EXCEPT
                          !.status_code = IF response = None THEN 200
                                          ELSE response,
                          !.time_end = time,
                          !.trace = Append(@, "end")]
       IN /\ tokens' = [tokens EXCEPT ![state] = updated]
          /\ counters' = Counter_inc(counters, "http_status_codes",
                                     <<str_int(updated.status_code)>>)
          /\ histograms' = Histogram_observe(histograms, "http_latency",
                                             ms_since(updated.time_end))
    /\ Called("on_web_request_end", state, "None")
    /\ UNCHANGED <<gauges, time, metric_counts,
                   events_runtime, messages>>

\* response is response.status, or None; the baseline stores
\* HTTPStatus(response.status if response is not None else 500) and time_end
on_web_request_end(response, state) ==
    /\ state \in TokensOf("web_request")
    /\ LET updated == [tokens[state] EXCEPT
                          !.status_code = IF response = None THEN 500
                                          ELSE response,
                          !.time_end = time,
                          !.trace = Append(@, "end")]
       IN /\ tokens' = [tokens EXCEPT ![state] = updated]
          /\ counters' = Counter_inc(counters, "http_status_codes",
                                     <<str_int(updated.status_code)>>)
          /\ histograms' = Histogram_observe(histograms, "http_latency",
                                             ms_since(updated.time_end))
    /\ Called("on_web_request_end", state, "None")
    /\ UNCHANGED <<gauges, time, metric_counts, events_runtime, messages>>

\* the clock advances between handler calls
Tick ==
    /\ time < MaxTime
    /\ time' = time + 1
    /\ UNCHANGED <<counters, gauges, histograms, events_runtime, messages,
                   tokens, ncalls, last, metric_counts>>

(***************************************************************************)
(* The process around the monitor: the configuration, the registry of      *)
(* prometheus_client and the pages of the app.                             *)
(***************************************************************************)
\* an instance PrometheusMonitorConfig(namespace=..., subsystem=..., path=...)
PrometheusMonitorConfig(namespace, subsystem, path) ==
    [instance |-> TRUE, namespace |-> namespace, subsystem |-> subsystem,
     path |-> path]

\* the class PrometheusMonitorConfig itself: namespace, subsystem and path
\* are set by its __init__, so the class has none of these attributes
PrometheusMonitorConfigClass ==
    [instance |-> FALSE, namespace |-> "", subsystem |-> "", path |-> ""]

\* PrometheusMonitorConfig(): the defaults of its __init__
DefaultConfig == PrometheusMonitorConfig("", "", "/metrics")

\* the configurations monitors are constructed with; two of them give the
\* same fully-qualified metric names
Configs == {DefaultConfig,
            PrometheusMonitorConfig("faust", "app", "/metrics"),
            PrometheusMonitorConfig("faust_app", "", "/prom")}

\* the pm_config argument of __init__: {} is None, {c} is the instance c
ConfigArgs == {{}} \cup {{c} : c \in Configs}

\* the full name prometheus_client builds for a metric: namespace,
\* subsystem and name joined by '_', empty parts left out
full_name(namespace, subsystem, name) ==
    (IF namespace = "" THEN "" ELSE namespace \o "_")
      \o (IF subsystem = "" THEN "" ELSE subsystem \o "_") \o name

\* the metrics _initialize_metrics declares, in its order: the attribute
\* they are kept in (key), the name they are declared with and their type
Metrics ==
    << [key |-> "messages_received", name |-> "messages_received",
        type |-> "counter"],
       [key |-> "active_messages", name |-> "active_messages",
        type |-> "gauge"],
       [key |-> "messages_received_per_topic",
        name |-> "messages_received_per_topic", type |-> "counter"],
       [key |-> "messages_received_per_topics_partition",
        name |-> "messages_received_per_topics_partition", type |-> "gauge"],
       [key |-> "events_runtime_latency", name |-> "events_runtime_ms",
        type |-> "histogram"],
       [key |-> "total_events", name |-> "total_events", type |-> "counter"],
       [key |-> "total_active_events", name |-> "total_active_events",
        type |-> "gauge"],
       [key |-> "total_events_per_stream", name |-> "total_events_per_stream",
        type |-> "counter"],
       [key |-> "table_operations", name |-> "table_operations",
        type |-> "counter"],
       [key |-> "topic_messages_sent", name |-> "topic_messages_sent",
        type |-> "counter"],
       [key |-> "total_sent_messages", name |-> "total_sent_messages",
        type |-> "counter"],
       [key |-> "producer_send_latency", name |-> "producer_send_latency",
        type |-> "histogram"],
       [key |-> "total_error_messages_sent",
        name |-> "total_error_messages_sent", type |-> "counter"],
       [key |-> "producer_error_send_latency",
        name |-> "producer_error_send_latency", type |-> "histogram"],
       [key |-> "assignment_operations", name |-> "assignment_operations",
        type |-> "counter"],
       [key |-> "assign_latency", name |-> "assign_latency",
        type |-> "histogram"],
       [key |-> "total_rebalances", name |-> "total_rebalances",
        type |-> "gauge"],
       [key |-> "total_rebalances_recovering",
        name |-> "total_rebalances_recovering", type |-> "gauge"],
       [key |-> "rebalance_done_consumer_latency",
        name |-> "rebalance_done_consumer_latency", type |-> "histogram"],
       [key |-> "rebalance_done_latency", name |-> "rebalance_done_latency",
        type |-> "histogram"],
       [key |-> "metrics_by_name", name |-> "metrics_by_name",
        type |-> "gauge"],
       [key |-> "http_status_codes", name |-> "http_status_codes",
        type |-> "counter"],
       [key |-> "http_latency", name |-> "http_latency",
        type |-> "histogram"],
       [key |-> "topic_partition_end_offset",
        name |-> "topic_partition_end_offset", type |-> "gauge"],
       [key |-> "topic_partition_offset_commited",
        name |-> "topic_partition_offset_commited", type |-> "gauge"],
       [key |-> "consumer_commit_latency", name |-> "consumer_commit_latency",
        type |-> "histogram"] >>

\* the collectors prometheus_client registers on import: process, platform
\* and garbage collection; their samples are read from the running process
DefaultCollectors ==
    << [key |-> "", name |-> "process_cpu_seconds", type |-> "process"],
       [key |-> "", name |-> "python_info", type |-> "process"],
       [key |-> "", name |-> "python_gc_objects_collected",
        type |-> "process"] >>

\* the suffixes of the time series of a metric of this type
type_suffixes(type) ==
    CASE type = "counter" -> {"_total", "_created"}
      [] type = "histogram" -> {"_bucket", "_sum", "_count", "_created"}
      [] OTHER -> {""}

\* the time series names a collector claims in the registry
names_of(collector) ==
    {collector.name} \cup
      {collector.name \o suffix : suffix \in type_suffixes(collector.type)}

\* REGISTRY._names_to_collectors: the names claimed so far
_names_to_collectors(reg) == UNION {names_of(reg[i]) : i \in DOMAIN reg}

\* REGISTRY.register(collector): ValueError('Duplicated timeseries ...')
\* when one of its names is claimed already
Duplicated(reg, collector) ==
    names_of(collector) \cap _names_to_collectors(reg) # {}

\* REGISTRY.unregister(collector); a collector that is not registered is
\* a KeyError, which _python_gc_metrics suppresses
unregister(reg, collector) == SelectSeq(reg, LAMBDA c : c # collector)

\* list(REGISTRY._names_to_collectors.values()): every collector, once for
\* each name it claims
RECURSIVE Repeat(_, _)
Repeat(x, n) == IF n = 0 THEN <<>> ELSE <<x>> \o Repeat(x, n - 1)

\* the list of _python_gc_metrics reduced to the garbage collection
\* collector, the one its comment names
collectors_by_name_GcOnly(reg) ==
    SelectSeq(reg, LAMBDA c : c.name = "python_gc_objects_collected")

RECURSIVE collectors_by_name(_)
collectors_by_name(reg) ==
    IF reg = <<>> THEN <<>>
    ELSE Repeat(reg[1], Cardinality(names_of(reg[1])))
           \o collectors_by_name(Tail(reg))

\* the loop of _python_gc_metrics from the i-th collector of the list on;
\* once the registry is empty every further unregister is a KeyError
RECURSIVE unregister_all(_, _, _)
unregister_all(reg, collectors, i) ==
    IF i > Len(collectors) \/ reg = <<>> THEN reg
    ELSE unregister_all(unregister(reg, collectors[i]), collectors, i + 1)

\* _python_gc_metrics that removes nothing
_python_gc_metrics_Keep(reg) == reg

\* PrometheusMonitor._python_gc_metrics
_python_gc_metrics(reg) == unregister_all(reg, collectors_by_name(reg), 1)

\* the declarations of _initialize_metrics from the i-th on: each reads
\* pm_config.namespace and pm_config.subsystem and registers the metric
RECURSIVE declare(_, _, _)
declare(reg, pm_config, i) ==
    IF i > Len(Metrics) THEN [reg |-> reg, exc |-> "None"]
    ELSE IF ~pm_config.instance
         THEN [reg |-> reg, exc |-> "AttributeError"]
    ELSE LET collector ==
               [key |-> Metrics[i].key,
                name |-> full_name(pm_config.namespace, pm_config.subsystem,
                                   Metrics[i].name),
                type |-> Metrics[i].type]
         IN IF Duplicated(reg, collector)
            THEN [reg |-> reg, exc |-> "ValueError"]
            ELSE declare(Append(reg, collector), pm_config, i + 1)

\* PrometheusMonitor._initialize_metrics: the registry it leaves and the
\* exception it raises
_initialize_metrics(reg, pm_config) == declare(reg, pm_config, 1)

\* the metric objects _initialize_metrics creates: a metric without label
\* names has its one series from the start, at 0
NewCounters == [n \in CounterNames |->
                   IF n \in Labelled THEN <<>> ELSE (<<>> :> 0)]
NewGauges == [n \in GaugeNames |->
                 IF n \in Labelled THEN <<>> ELSE (<<>> :> 0)]
NewHistograms == [n \in HistogramNames |-> <<>>]

\* __init__ that checks for prometheus_client only after it has cleared
\* the registry
__init___ClearsFirst(pm_config_arg) ==
    LET pm_config == IF pm_config_arg = {} THEN PrometheusMonitorConfigClass
                     ELSE CHOOSE c \in pm_config_arg : TRUE
        cleared == _python_gc_metrics(REGISTRY)
        declared == _initialize_metrics(cleared, pm_config)
    IN /\ init_arg' = pm_config_arg
       /\ UNCHANGED <<prometheus_client, exported, time>>
       /\ IF ~prometheus_client
          THEN /\ REGISTRY' = cleared
               /\ CalledInOrder("__init__", 0, "ImproperlyConfigured",
                                <<"metrics", "super">>)
               /\ UNCHANGED <<pages, monitor, counters, gauges, histograms,
                              events_runtime, messages, tokens, metric_counts>>
          ELSE IF declared.exc # "None"
          THEN /\ REGISTRY' = declared.reg
               /\ CalledInOrder("__init__", 0, declared.exc,
                                <<"metrics", "super">>)
               /\ UNCHANGED <<pages, monitor, counters, gauges, histograms,
                              events_runtime, messages, tokens, metric_counts>>
          ELSE /\ REGISTRY' = declared.reg
               /\ pages' = pages \cup {pm_config.path}
               /\ monitor' = {[pm_config |-> pm_config]}
               /\ counters' = NewCounters
               /\ gauges' = NewGauges
               /\ histograms' = NewHistograms
               /\ events_runtime' = <<>>
               /\ messages' = <<>>
               /\ tokens' = <<>>
               /\ metric_counts' = <<>>
               /\ CalledInOrder("__init__", 0, "None", <<"metrics", "super">>)

\* PrometheusMonitor(app, pm_config): self.pm_config is the class when no
\* configuration is given; without prometheus_client the constructor raises
\* before it touches the registry; otherwise it clears the registry,
\* declares the metrics, adds the export page and runs the baseline's
\* __init__, and the app takes the new monitor
__init__(pm_config_arg) ==
    LET pm_config == IF pm_config_arg = {} THEN PrometheusMonitorConfigClass
                     ELSE CHOOSE c \in pm_config_arg : TRUE
        cleared == _python_gc_metrics(REGISTRY)
        declared == _initialize_metrics(cleared, pm_config)
    IN /\ init_arg' = pm_config_arg
       /\ UNCHANGED <<prometheus_client, exported, time>>
       /\ IF ~prometheus_client
          THEN /\ CalledInOrder("__init__", 0, "ImproperlyConfigured",
                                <<"metrics", "super">>)
               /\ UNCHANGED <<REGISTRY, pages, monitor, counters, gauges,
                              histograms, events_runtime, messages, tokens,
                              metric_counts>>
          ELSE IF declared.exc # "None"
          THEN /\ REGISTRY' = declared.reg
               /\ CalledInOrder("__init__", 0, declared.exc,
                                <<"metrics", "super">>)
               /\ UNCHANGED <<pages, monitor, counters, gauges, histograms,
                              events_runtime, messages, tokens, metric_counts>>
          ELSE /\ REGISTRY' = declared.reg
               /\ pages' = pages \cup {pm_config.path}
               /\ monitor' = {[pm_config |-> pm_config]}
               /\ counters' = NewCounters
               /\ gauges' = NewGauges
               /\ histograms' = NewHistograms
               /\ events_runtime' = <<>>
               /\ messages' = <<>>
               /\ tokens' = <<>>
               /\ metric_counts' = <<>>
               /\ CalledInOrder("__init__", 0, "None", <<"metrics", "super">>)

\* what the process and platform collectors read at the time of a scrape
ProcessReadings == {0, 1}

RECURSIVE SumSeq(_)
SumSeq(s) == IF s = <<>> THEN 0 ELSE s[1] + SumSeq(Tail(s))

\* the label value of the last bucket of a histogram
S_Inf == <<"+","I","n","f">>

\* the samples one collector yields: a counter under <name>_total, a gauge
\* under its name, a histogram as its count, its sum and its last bucket
\* (the finite buckets are left out)
collect(collector, reading) ==
    CASE collector.type = "counter" ->
           {[name |-> collector.name \o "_total", labels |-> k,
             value |-> counters[collector.key][k]] :
               k \in DOMAIN counters[collector.key]}
      [] collector.type = "gauge" ->
           {[name |-> collector.name, labels |-> k,
             value |-> gauges[collector.key][k]] :
               k \in DOMAIN gauges[collector.key]}
      [] collector.type = "histogram" ->
           {[name |-> collector.name \o "_bucket", labels |-> <<S_Inf>>,
             value |-> Len(histograms[collector.key])],
            [name |-> collector.name \o "_count", labels |-> <<>>,
             value |-> Len(histograms[collector.key])],
            [name |-> collector.name \o "_sum", labels |-> <<>>,
             value |-> SumSeq(histograms[collector.key])]}
      [] OTHER ->
           {[name |-> collector.name, labels |-> <<>>, value |-> reading]}

\* generate_latest(REGISTRY): the metric families in registration order,
\* each with its samples
generate_latest(reg, reading) ==
    [i \in DOMAIN reg |->
        [name |-> reg[i].name, type |-> reg[i].type,
         samples |-> collect(reg[i], reading)]]

\* the page expose_metrics adds at pm_config.path
metrics_handler(path) ==
    /\ path \in pages
    /\ \E reading \in ProcessReadings :
          exported' = [status |-> 200,
                       content_type |->
                           "text/plain; version=0.0.4; charset=utf-8",
                       body |-> generate_latest(REGISTRY, reading)]
    /\ Called("metrics_handler", 0, "None")
    /\ UNCHANGED <<counters, gauges, histograms, time, events_runtime,
                   messages, tokens, metric_counts, prometheus_client,
                   REGISTRY, pages, monitor, init_arg>>

(***************************************************************************)
(* Construction and the specifications.                                    *)
(***************************************************************************)
\* the monitor right after PrometheusMonitor.__init__
InitMonitor ==
    /\ counters = NewCounters
    /\ gauges = NewGauges
    /\ histograms = NewHistograms
    /\ time = 0
    /\ events_runtime = <<>>
    /\ messages = <<>>
    /\ tokens = <<>>
    /\ ncalls = [op \in Ops |-> 0]
    /\ last = [op |-> "__init__", token |-> 0, exc |-> "None", now |-> 0,
               order |-> <<"metrics", "super">>]
    /\ metric_counts = <<>>

\* the process after PrometheusMonitor(app, PrometheusMonitorConfig()) was
\* constructed in a fresh process, as the test fixture does
InitConstructed ==
    /\ prometheus_client = TRUE
    /\ REGISTRY = _initialize_metrics(<<>>, DefaultConfig).reg
    /\ pages = {DefaultConfig.path}
    /\ monitor = {[pm_config |-> DefaultConfig]}
    /\ init_arg = {DefaultConfig}
    /\ exported = [status |-> 0, content_type |-> "", body |-> <<>>]

RECURSIVE SumOver(_, _)
SumOver(f, S) ==
    IF S = {} THEN 0
    ELSE LET x == CHOOSE y \in S : TRUE IN f[x] + SumOver(f, S \ {x})

\* handler calls made so far
TotalCalls == SumOver(ncalls, Ops)

\* the topic partitions whose offsets get committed
CommitTPs == {tp \in TPs : tp.partition = 3}

\* the mappings on_tp_commit is given: item sequences with distinct keys
TPOffsetMappings ==
    {m \in UNION {[1..n -> CommitTPs \X Offsets] :
                    n \in 0..Cardinality(CommitTPs)} :
        \A i, j \in DOMAIN m : i # j => m[i][1] # m[j][1]}

\* short labels of the label runs: with and without the 'Stream:' prefix
LabelAlphabet == {"S", "t", ":", " ", "<", "_", "F", "o"}
LabelTails == UNION {[1..n -> LabelAlphabet] : n \in 0..MaxLen}
LabelInputs == LabelTails \cup {S_Stream_colon \o t : t \in LabelTails}
                 \cup Streams

NoLabelRun == stream = <<>> /\ once = <<>> /\ twice = <<>> /\ pc = "off"

Init == InitMonitor /\ InitConstructed /\ NoLabelRun

MessageIn == \E tp \in TPs, offset \in Offsets : on_message_in(tp, offset)
MessageOut == \E m \in DOMAIN messages : on_message_out(m)
\* tp, offset and event only go to the baseline, which does not read them:
\* one topic partition and offset stand for all
StreamEventIn ==
    \E s \in Streams :
        on_stream_event_in(CHOOSE tp \in TPs : TRUE,
                           CHOOSE offset \in Offsets : TRUE, s)
StreamEventOut == \E st \in 0..Len(tokens) : on_stream_event_out(st)
TableGet == \E t \in Tables : on_table_get(t)
TableSet == \E t \in Tables : on_table_set(t)
TableDel == \E t \in Tables : on_table_del(t)
CommitCompleted == \E st \in DOMAIN tokens : on_commit_completed(st)
SendInitiated == \E t \in Topics : on_send_initiated(t)
SendCompleted == \E st \in DOMAIN tokens : on_send_completed(st)
SendError == \E st \in DOMAIN tokens : on_send_error(st)
AssignmentError == \E st \in DOMAIN tokens : on_assignment_error(st)
AssignmentCompleted == \E st \in DOMAIN tokens : on_assignment_completed(st)
RebalanceReturn == \E st \in DOMAIN tokens : on_rebalance_return(st)
RebalanceEnd == \E st \in DOMAIN tokens : on_rebalance_end(st)
Count == \E name \in MetricNames, n \in 1..MaxCount : count(name, n)
TpCommit == \E m \in TPOffsetMappings : on_tp_commit(m)
TrackTpEndOffset ==
    \E tp \in TPs, offset \in Offsets : track_tp_end_offset(tp, offset)
WebRequestEnd ==
    \E r \in Responses, st \in DOMAIN tokens : on_web_request_end(r, st)

\* every handler of the monitor, under a clock that stands still (the time
\* function of the test fixture returns a constant)
Next ==
    /\ TotalCalls < MaxCallsAll
    /\ UNCHANGED <<labelVars, processVars>>
    /\ \/ MessageIn
       \/ MessageOut
       \/ StreamEventIn
       \/ StreamEventOut
       \/ TableGet
       \/ TableSet
       \/ TableDel
       \/ on_commit_initiated
       \/ CommitCompleted
       \/ SendInitiated
       \/ SendCompleted
       \/ SendError
       \/ on_assignment_start
       \/ AssignmentError
       \/ AssignmentCompleted
       \/ on_rebalance_start
       \/ RebalanceReturn
       \/ RebalanceEnd
       \/ Count
       \/ TpCommit
       \/ TrackTpEndOffset
       \/ on_web_request_start
       \/ WebRequestEnd

Spec == Init /\ [][Next]_vars

\* messages and stream events, the clock standing still
NextMsg ==
    /\ TotalCalls < MaxCallsMsg
    /\ UNCHANGED <<labelVars, processVars>>
    /\ \/ MessageIn
       \/ MessageOut
       \/ StreamEventIn
       \/ StreamEventOut

SpecMsg == Init /\ [][NextMsg]_vars

\* the handlers that pass label values
NextSeries ==
    /\ TotalCalls < MaxCallsSeries
    /\ UNCHANGED <<labelVars, processVars>>
    /\ \/ MessageIn
       \/ StreamEventIn
       \/ TableGet
       \/ TableSet
       \/ TableDel
       \/ SendInitiated
       \/ Count
       \/ TpCommit

SpecSeries == Init /\ [][NextSeries]_vars

\* the handlers that observe a latency and their start handlers, the clock
\* running
NextLatency ==
    \/ /\ TotalCalls < MaxCallsLatency
       /\ UNCHANGED <<labelVars, processVars>>
       /\ \/ StreamEventIn
          \/ StreamEventOut
          \/ on_commit_initiated
          \/ CommitCompleted
          \/ SendInitiated
          \/ SendCompleted
          \/ SendError
          \/ on_assignment_start
          \/ AssignmentError
          \/ AssignmentCompleted
          \/ on_rebalance_start
          \/ RebalanceReturn
          \/ RebalanceEnd
          \/ on_web_request_start
          \/ WebRequestEnd
    \/ Tick /\ UNCHANGED <<labelVars, processVars>>

SpecLatency == Init /\ [][NextLatency]_vars

\* rebalances, the clock running
NextRebalance ==
    \/ /\ TotalCalls < MaxCallsRebalance
       /\ UNCHANGED <<labelVars, processVars>>
       /\ \/ on_rebalance_start
          \/ RebalanceReturn
          \/ RebalanceEnd
    \/ Tick /\ UNCHANGED <<labelVars, processVars>>

SpecRebalance == Init /\ [][NextRebalance]_vars

(***************************************************************************)
(* Label runs: one stream, its label as on_stream_event_in uses it, and    *)
(* _stream_label applied once and twice.                                   *)
(***************************************************************************)
InitLabel ==
    /\ InitMonitor
    /\ InitConstructed
    /\ stream \in LabelInputs
    /\ once = <<>>
    /\ twice = <<>>
    /\ pc = "event"

LabelEventIn ==
    /\ pc = "event"
    /\ on_stream_event_in(CHOOSE tp \in TPs : TRUE,
                          CHOOSE offset \in Offsets : TRUE, stream)
    /\ pc' = "once"
    /\ UNCHANGED <<stream, once, twice, processVars>>

LabelOnce ==
    /\ pc = "once"
    /\ once' = _stream_label(stream)
    /\ pc' = "twice"
    /\ UNCHANGED <<counters, gauges, histograms, time, events_runtime,
                   messages, tokens, ncalls, last, stream, twice,
                   metric_counts, processVars>>

LabelTwice ==
    /\ pc = "twice"
    /\ twice' = _stream_label(once)
    /\ pc' = "done"
    /\ UNCHANGED <<counters, gauges, histograms, time, events_runtime,
                   messages, tokens, ncalls, last, stream, once,
                   metric_counts, processVars>>

NextLabel == LabelEventIn \/ LabelOnce \/ LabelTwice

SpecLabel == InitLabel /\ [][NextLabel]_vars

(***************************************************************************)
(* The process from its start: monitors are constructed, by any            *)
(* configuration or none, one after another.                               *)
(***************************************************************************)
\* a process that has imported the module and constructed no monitor yet;
\* the module's global prometheus_client is the library or, as in the test
\* of the missing library, None
InitProcess ==
    /\ prometheus_client \in BOOLEAN
    /\ REGISTRY = DefaultCollectors
    /\ pages = {}
    /\ monitor = {}
    /\ init_arg = {}
    /\ exported = [status |-> 0, content_type |-> "", body |-> <<>>]
    /\ counters = <<>>
    /\ gauges = <<>>
    /\ histograms = <<>>
    /\ time = 0
    /\ events_runtime = <<>>
    /\ messages = <<>>
    /\ tokens = <<>>
    /\ ncalls = [op \in Ops |-> 0]
    /\ last = [op |-> "import", token |-> 0, exc |-> "None", now |-> 0,
               order |-> <<>>]
    /\ metric_counts = <<>>
    /\ NoLabelRun

Construction == \E pm_config_arg \in ConfigArgs : __init__(pm_config_arg)
Export == \E path \in pages : metrics_handler(path)

\* constructions, with calls of count on the monitor of the app in between
NextInit ==
    /\ TotalCalls < MaxCallsInit
    /\ UNCHANGED labelVars
    /\ \/ Construction
       \/ monitor # {} /\ Count /\ UNCHANGED processVars

SpecInit == InitProcess /\ [][NextInit]_vars

\* a process that constructs its one monitor, calls handlers and is scraped
NextExport ==
    \/ /\ TotalCalls < MaxCallsExport
       /\ UNCHANGED labelVars
       /\ \/ monitor = {} /\ Construction
          \/ /\ monitor # {}
             /\ UNCHANGED processVars
             /\ \/ TableGet
                \/ Count
                \/ on_commit_initiated
                \/ CommitCompleted
          \/ Export
    \/ monitor # {} /\ Tick /\ UNCHANGED <<labelVars, processVars>>

SpecExport == InitProcess /\ [][NextExport]_vars

(***************************************************************************)
(* Properties.                                                             *)
(***************************************************************************)
\* sum of the series of one metric
SumSeries(m) == SumOver(m, DOMAIN m)

\* the step is a call of handler op
IsCall(op) == ncalls'[op] = ncalls[op] + 1

\* no series of metric family f (counters or gauges) named n is lowered or lost
NotLowered(f, fNext, n) ==
    \A k \in DOMAIN f[n] : k \in DOMAIN fNext[n] /\ fNext[n][k] >= f[n][k]

C1_Counts ==
    /\ counters["messages_received"][<<>>] = ncalls["on_message_in"]
    /\ SumSeries(counters["messages_received_per_topic"])
         = ncalls["on_message_in"]
    /\ counters["total_events"][<<>>] = ncalls["on_stream_event_in"]
    /\ SumSeries(counters["total_events_per_stream"])
         = ncalls["on_stream_event_in"]

C1_NoDecrease ==
    \A n \in {"messages_received", "messages_received_per_topic",
              "total_events", "total_events_per_stream"} :
        NotLowered(counters, counters', n)

\* C1: messages_received equals the number of on_message_in calls and the sum
\* of messages_received_per_topic over the topics; total_events equals the
\* number of on_stream_event_in calls and the sum of total_events_per_stream
\* over the streams; no handler lowers any of these counters.
C1_CountersTrackCalls == []C1_Counts /\ [][C1_NoDecrease]_vars

\* a message and a stream event have been counted
C1_Witness ==
    /\ counters["messages_received"][<<>>] = 1
    /\ counters["total_events"][<<>>] = 1
    /\ Cardinality(DOMAIN counters["messages_received_per_topic"]) = 1
    /\ Cardinality(DOMAIN counters["total_events_per_stream"]) = 1

C2_Gauges ==
    /\ gauges["active_messages"][<<>>]
         = ncalls["on_message_in"] - ncalls["on_message_out"]
    /\ gauges["total_active_events"][<<>>]
         = ncalls["on_stream_event_in"] - ncalls["on_stream_event_out"]

C2_Steps ==
    /\ IsCall("on_message_in") =>
         gauges'["active_messages"][<<>>] = gauges["active_messages"][<<>>] + 1
    /\ IsCall("on_stream_event_in") =>
         gauges'["total_active_events"][<<>>]
           = gauges["total_active_events"][<<>>] + 1
    /\ IsCall("on_stream_event_out") =>
         gauges'["total_active_events"][<<>>]
           = gauges["total_active_events"][<<>>] - 1
    /\ IsCall("on_message_out") =>
         /\ gauges'["active_messages"][<<>>]
              = gauges["active_messages"][<<>>] - 1
         /\ \A n \in GaugeNames \ {"active_messages"} : gauges'[n] = gauges[n]
         /\ counters' = counters
         /\ histograms' = histograms

\* C2: active_messages is the number of on_message_in calls minus the number
\* of on_message_out calls and total_active_events the number of
\* on_stream_event_in calls minus the number of on_stream_event_out calls; an
\* in call adds one and an out call takes one away, so the pair restores the
\* gauge; on_message_out changes no metric but active_messages.
C2_InFlightGauges == []C2_Gauges /\ [][C2_Steps]_vars

\* a message and a stream event came in and both went out again: each
\* gauge is back at 0
C2_Witness ==
    /\ last.op = "on_stream_event_out"
    /\ last.token # 0
    /\ ncalls["on_message_in"] = 1
    /\ ncalls["on_message_out"] = 1
    /\ ncalls["on_stream_event_in"] = 1
    /\ ncalls["on_stream_event_out"] = 1
    /\ gauges["active_messages"][<<>>] = 0
    /\ gauges["total_active_events"][<<>>] = 0

\* the series key on_message_in uses for a message
TPKey(tp) == <<tp.topic, str_int(tp.partition)>>

\* index of the most recent message of this topic partition
LastMessageOf(tp) ==
    CHOOSE i \in DOMAIN messages :
        /\ messages[i].tp = tp
        /\ \A j \in DOMAIN messages : messages[j].tp = tp => j <= i

C3_LastOffset ==
    /\ DOMAIN gauges["messages_received_per_topics_partition"]
         = {TPKey(messages[i].tp) : i \in DOMAIN messages}
    /\ \A i \in DOMAIN messages :
         gauges["messages_received_per_topics_partition"][TPKey(messages[i].tp)]
           = messages[LastMessageOf(messages[i].tp)].offset

C3_Frame ==
    IsCall("on_message_in") =>
        \A k \in DOMAIN gauges["messages_received_per_topics_partition"] :
            k # TPKey(messages'[Len(messages')].tp) =>
                gauges'["messages_received_per_topics_partition"][k]
                  = gauges["messages_received_per_topics_partition"][k]

\* C3: the received gauge of a (topic, partition) holds the offset of the most
\* recent on_message_in for it (the last one, not the highest), and an
\* on_message_in leaves the series of every other (topic, partition) alone.
C3_LastWriteWins == []C3_LastOffset /\ [][C3_Frame]_vars

\* two partitions have a series and one of them went from offset 2 back to 1
C3_Witness ==
    /\ Len(messages) = 3
    /\ messages[1].tp # messages[2].tp
    /\ messages[3].tp = messages[2].tp
    /\ messages[2].offset = 2
    /\ messages[3].offset = 1
    /\ gauges["messages_received_per_topics_partition"][TPKey(messages[3].tp)] = 1

\* the short label with a leading 'Stream:' taken off, if it has one
WithoutStreamPrefix(shortlabel) ==
    IF /\ Len(shortlabel) >= Len(S_Stream_colon)
       /\ SubSeq(shortlabel, 1, Len(S_Stream_colon)) = S_Stream_colon
    THEN SubSeq(shortlabel, Len(S_Stream_colon) + 1, Len(shortlabel))
    ELSE shortlabel

\* runs of whitespace, '<', '>', ':' to one underscore; underscores trimmed
\* at both ends; lower-cased
ReferenceNormalize(name) ==
    lower(strip(re_sub({"<", ">", ":"} \cup Whitespace, "_", name, FALSE), {"_"}))

ReferenceStreamSeries(shortlabel) ==
    S_stream_dot \o ReferenceNormalize(WithoutStreamPrefix(shortlabel))
                 \o S_dot_events

\* C4: the stream label on_stream_event_in uses is 'stream.<n>.events' with
\* <n> the short label without its 'Stream:' prefix, normalized (runs of
\* whitespace, '<', '>', ':' to one underscore, underscores trimmed,
\* lower-cased), for every short label of the bounded set.
C4_StreamLabelIsReference ==
    pc # "event" =>
        DOMAIN counters["total_events_per_stream"]
          = {<<ReferenceStreamSeries(stream)>>}

\* C5: the stream-label normalization is idempotent: _stream_label applied to
\* its own output returns that output.
C5_StreamLabelIdempotent == pc = "done" => twice = once

\* a label value without whitespace, '<', '>', ':' and upper-case letters
Clean(value) ==
    \A i \in DOMAIN value :
        value[i] \notin ({"<", ">", ":"} \cup Whitespace \cup UpperChars)

\* every label value of every series of this metric is clean
CleanSeries(m) == \A key \in DOMAIN m : \A j \in DOMAIN key : Clean(key[j])

LastObserved(name) == histograms[name][Len(histograms[name])]

\* time from the start call that returned the token of the last call to that
\* last call, in seconds
SecsSinceStart == last.now - tokens[last.token].time_start

\* C7: latencies are observed in seconds: on_stream_event_out observes
\* events_runtime[-1] as the baseline recorded it, and on_commit_completed,
\* on_send_completed, on_send_error and on_assignment_completed/error
\* observe secs_since(start timestamp), unconverted.
C7_ObservedInSeconds ==
    /\ (last.op = "on_stream_event_out" /\ last.exc = "None") =>
         LastObserved("events_runtime_latency")
           = events_runtime[Len(events_runtime)]
    /\ last.op = "on_commit_completed" =>
         LastObserved("consumer_commit_latency") = SecsSinceStart
    /\ last.op = "on_send_completed" =>
         LastObserved("producer_send_latency") = SecsSinceStart
    /\ last.op = "on_send_error" =>
         LastObserved("producer_error_send_latency") = SecsSinceStart
    /\ last.op \in {"on_assignment_completed", "on_assignment_error"} =>
         LastObserved("assign_latency") = SecsSinceStart

\* the histogram an end handler feeds
LatencyOf ==
    [on_send_completed |-> "producer_send_latency",
     on_send_error |-> "producer_error_send_latency",
     on_commit_completed |-> "consumer_commit_latency",
     on_assignment_completed |-> "assign_latency",
     on_assignment_error |-> "assign_latency",
     on_rebalance_return |-> "rebalance_done_consumer_latency",
     on_rebalance_end |-> "rebalance_done_latency",
     on_web_request_end |-> "http_latency"]

\* C8: what a paired end handler observes in its latency histogram is the
\* time from the matching start call to the end call: the current time minus
\* the timestamp the start call put in the state token.
C8_ObservedElapsedSinceStart ==
    last.op \in DOMAIN LatencyOf =>
        LastObserved(LatencyOf[last.op]) = SecsSinceStart

\* rebalance tokens that have seen exactly these end calls, in this order
RebalancesAt(trace) ==
    {i \in TokensOf("rebalance") : tokens[i].trace = trace}

\* every on_rebalance_start was followed by its on_rebalance_return and
\* then its on_rebalance_end, as far as the calls have come
RebalancesInOrder ==
    \A i \in TokensOf("rebalance") :
        tokens[i].trace \in {<<>>, <<"return">>, <<"return", "end">>}

\* C9: while every rebalance goes start, return, end, total_rebalances is
\* the number of rebalances started and not yet returned and
\* total_rebalances_recovering the number returned and not yet ended;
\* neither is negative, and a rebalance that has ended counts in neither, so
\* a completed cycle leaves both gauges as it found them.
C9_RebalanceGauges ==
    RebalancesInOrder =>
        /\ gauges["total_rebalances"][<<>>]
             = Cardinality(RebalancesAt(<<>>))
        /\ gauges["total_rebalances_recovering"][<<>>]
             = Cardinality(RebalancesAt(<<"return">>))
        /\ gauges["total_rebalances"][<<>>] >= 0
        /\ gauges["total_rebalances_recovering"][<<>>] >= 0

\* one rebalance has completed its cycle while a second one is recovering
C9_Witness ==
    /\ RebalancesInOrder
    /\ RebalancesAt(<<"return", "end">>) # {}
    /\ RebalancesAt(<<"return">>) # {}
    /\ gauges["total_rebalances"][<<>>] = 0
    /\ gauges["total_rebalances_recovering"][<<>>] = 1

\* the handlers that end what a start handler began
EndOps == {"on_message_out", "on_stream_event_out", "on_commit_completed",
           "on_send_completed", "on_send_error", "on_assignment_completed",
           "on_assignment_error", "on_rebalance_return", "on_rebalance_end",
           "on_web_request_end"}

\* the step is the call of an end handler
IsEndCall == \E op \in EndOps : IsCall(op)

\* histograms that gained exactly one observation in the step
Observed ==
    {h \in HistogramNames :
        /\ Len(histograms'[h]) = Len(histograms[h]) + 1
        /\ SubSeq(histograms'[h], 1, Len(histograms[h])) = histograms[h]}

\* the step leaves the metrics as they were but for one more observation
OnlyOneObservation ==
    /\ counters' = counters
    /\ gauges' = gauges
    /\ Cardinality(Observed) = 1
    /\ \A h \in HistogramNames \ Observed : histograms'[h] = histograms[h]

\* C10 as claimed: a run in which the end call arrived differs from the run
\* in which it did not by one latency observation only, so the end call
\* itself adds one observation and changes nothing else.
C10_EndIsOneObservation == [][IsEndCall => OnlyOneObservation]_vars

\* what an end handler does to the gauges: name -> change
GaugeChange(op) ==
    [n \in GaugeNames |->
        IF \/ op = "on_message_out" /\ n = "active_messages"
           \/ op = "on_stream_event_out" /\ n = "total_active_events"
           \/ op = "on_rebalance_return" /\ n = "total_rebalances"
           \/ op = "on_rebalance_end" /\ n = "total_rebalances_recovering"
        THEN 0 - 1
        ELSE IF op = "on_rebalance_return" /\ n = "total_rebalances_recovering"
        THEN 1
        ELSE 0]

\* the counter an end handler adds one to, if it has one
CompletionCounter(op) ==
    IF op = "on_send_completed" THEN {"total_sent_messages"}
    ELSE IF op = "on_send_error" THEN {"total_error_messages_sent"}
    ELSE IF op \in {"on_assignment_completed", "on_assignment_error"}
         THEN {"assignment_operations"}
    ELSE IF op = "on_web_request_end" THEN {"http_status_codes"}
    ELSE {}

\* the whole effect of the end call op on the metrics
EndEffect(op) ==
    /\ Cardinality(Observed) <= 1
    /\ \A h \in HistogramNames \ Observed : histograms'[h] = histograms[h]
    /\ \A n \in GaugeNames :
         /\ DOMAIN gauges'[n] = DOMAIN gauges[n]
         /\ \A k \in DOMAIN gauges[n] :
              gauges'[n][k] = gauges[n][k] + GaugeChange(op)[n]
    /\ \A n \in CounterNames :
         IF n \in CompletionCounter(op)
         THEN /\ NotLowered(counters, counters', n)
              /\ SumSeries(counters'[n]) = SumSeries(counters[n]) + 1
         ELSE counters'[n] = counters[n]

\* C10, amended: the state token holds nothing, but an end call that never
\* arrives leaves more behind than a missing observation. The run without
\* it differs from the run with it by everything the end handler does: at
\* most one latency observation, the in-flight gauge it would have taken one
\* from (active_messages, total_active_events, total_rebalances,
\* total_rebalances_recovering; on_rebalance_return also adds one to
\* total_rebalances_recovering) and the completion counter it would have
\* added one to (total_sent_messages, total_error_messages_sent,
\* assignment_operations, http_status_codes); nothing else.
C10_EndEffects == [][\A op \in EndOps : IsCall(op) => EndEffect(op)]_vars

\* a rebalance was started and has returned: the return moved the two gauges
C10_Witness ==
    /\ last.op = "on_rebalance_return"
    /\ tokens[last.token].trace = <<"return">>
    /\ gauges["total_rebalances"][<<>>] = 0
    /\ gauges["total_rebalances_recovering"][<<>>] = 1
    /\ Len(histograms["rebalance_done_consumer_latency"]) = 1

(***************************************************************************)
(* C11: the status code of a web request.                                  *)
(***************************************************************************)
\* the status_code label of a request that ended with this response
StatusLabel(r) == IF r = None THEN <<"5","0","0">> ELSE str_int(r)

\* metric m' is metric m with one added to the series at key and nothing
\* else changed
OneMore(m, mNext, key) ==
    /\ DOMAIN mNext = DOMAIN m \cup {key}
    /\ mNext[key] = Series(m, key) + 1
    /\ \A k \in DOMAIN m \ {key} : mNext[k] = m[k]

\* histogram h has one more observation and keeps the earlier ones
ObservedOnce(h) ==
    /\ Len(histograms'[h]) = Len(histograms[h]) + 1
    /\ SubSeq(histograms'[h], 1, Len(histograms[h])) = histograms[h]

\* C11: a call of on_web_request_end adds one to exactly one series of
\* http_status_codes, the one labelled with the status of the response or
\* with 500 when there is no response, makes exactly one http_latency
\* observation and does not raise, with or without a response.
C11_WebRequestEnd ==
    [][IsCall("on_web_request_end") =>
        \A r \in Responses, st \in DOMAIN tokens :
          on_web_request_end(r, st) =>
            /\ last'.exc = "None"
            /\ OneMore(counters["http_status_codes"],
                       counters'["http_status_codes"], <<StatusLabel(r)>>)
            /\ \A n \in CounterNames \ {"http_status_codes"} :
                  counters'[n] = counters[n]
            /\ ObservedOnce("http_latency")
            /\ \A h \in HistogramNames \ {"http_latency"} :
                  histograms'[h] = histograms[h]]_vars

\* a request ended without a response: it is counted under 500
C11_Witness ==
    /\ last.op = "on_web_request_end"
    /\ last.exc = "None"
    /\ tokens[last.token].status_code = 500
    /\ counters["http_status_codes"] = (<< <<"5","0","0">> >> :> 1)
    /\ Len(histograms["http_latency"]) = 1

(***************************************************************************)
(* C12: committed offsets.                                                 *)
(***************************************************************************)
\* the items of a mapping, whatever their order
Items(m) == {m[i] : i \in DOMAIN m}

\* C12: on_tp_commit(m) sets the topic_partition_offset_commited series of
\* every topic partition of m to the offset m gives it and touches no other
\* series of that gauge; every other metric, topic_partition_end_offset
\* among them, is unchanged; and the mapping iterated in any other order
\* gives the same gauges.
C12_TpCommit ==
    [][IsCall("on_tp_commit") => \A m \in TPOffsetMappings :
          on_tp_commit(m) =>
            LET committed == gauges["topic_partition_offset_commited"]
                committedNext == gauges'["topic_partition_offset_commited"]
                keys == {TPKey(item[1]) : item \in Items(m)}
            IN /\ DOMAIN committedNext = DOMAIN committed \cup keys
               /\ \A item \in Items(m) :
                     committedNext[TPKey(item[1])] = item[2]
               /\ \A k \in DOMAIN committed \ keys :
                     committedNext[k] = committed[k]
               /\ \A n \in GaugeNames \ {"topic_partition_offset_commited"} :
                     gauges'[n] = gauges[n]
               /\ counters' = counters
               /\ histograms' = histograms
               /\ \A other \in TPOffsetMappings :
                     Items(other) = Items(m) =>
                       set_offsets(gauges, other) = gauges']_vars

\* two offsets were committed at once, for a topic partition whose end
\* offset is tracked at another value
C12_Witness ==
    /\ last.op = "on_tp_commit"
    /\ Cardinality(DOMAIN gauges["topic_partition_offset_commited"]) = 2
    /\ \E k \in DOMAIN gauges["topic_partition_end_offset"] :
          /\ k \in DOMAIN gauges["topic_partition_offset_commited"]
          /\ gauges["topic_partition_end_offset"][k]
               # gauges["topic_partition_offset_commited"][k]

(***************************************************************************)
(* C13: table operations.                                                  *)
(***************************************************************************)
\* the step adds one to the table_operations series of this table and
\* operation and changes no other series of any metric
TableOperation(table, operation) ==
    /\ OneMore(counters["table_operations"], counters'["table_operations"],
               <<S_table_dot \o table, operation>>)
    /\ \A n \in CounterNames \ {"table_operations"} :
          counters'[n] = counters[n]
    /\ gauges' = gauges
    /\ histograms' = histograms

\* C13: on_table_get, on_table_set and on_table_del each add one to exactly
\* one table_operations series, that of table 'table.<name>' and operation
\* keys_retrieved, keys_updated or keys_deleted respectively; the series of
\* the other operations and of the other tables are unchanged.
C13_TableOperations ==
    [][\A t \in Tables :
          /\ (IsCall("on_table_get") /\ on_table_get(t))
               => TableOperation(t, KEYS_RETRIEVED)
          /\ (IsCall("on_table_set") /\ on_table_set(t))
               => TableOperation(t, KEYS_UPDATED)
          /\ (IsCall("on_table_del") /\ on_table_del(t))
               => TableOperation(t, KEYS_DELETED)]_vars

\* a key of one table was retrieved and then one was updated: two series
C13_Witness ==
    /\ last.op = "on_table_set"
    /\ \E t \in Tables :
          counters["table_operations"] =
            (<<S_table_dot \o t, KEYS_RETRIEVED>> :> 1)
              @@ (<<S_table_dot \o t, KEYS_UPDATED>> :> 1)

(***************************************************************************)
(* C14: sending a message.                                                 *)
(***************************************************************************)
\* the handlers of the monitor other than on_send_initiated
OtherHandlers == Ops \ {"on_send_initiated", "__init__", "metrics_handler"}

CountsAreSums ==
    /\ DOMAIN gauges["metrics_by_name"] =
          {<<name>> : name \in DOMAIN metric_counts}
    /\ \A name \in DOMAIN metric_counts :
          gauges["metrics_by_name"][<<name>>] = metric_counts[name]

\* C15: after any sequence of count(name, n) calls metrics_by_name{name}
\* is the sum of the n given for that name, and a call of count for one
\* name adds its n to the series of that name and leaves the series of
\* every other name as they were.
C15_Count ==
    [][/\ CountsAreSums'
       /\ \A name \in MetricNames, n \in 1..MaxCount :
            (IsCall("count") /\ count(name, n)) =>
              /\ gauges'["metrics_by_name"][<<name>>] =
                    Series(gauges["metrics_by_name"], <<name>>) + n
              /\ \A k \in DOMAIN gauges["metrics_by_name"] \ {<<name>>} :
                    gauges'["metrics_by_name"][k] =
                      gauges["metrics_by_name"][k]]_vars

\* one name was counted twice, by 1 and by 2 in some order
C15_Witness ==
    /\ last.op = "count"
    /\ ncalls["count"] = 2
    /\ \E name \in MetricNames :
          /\ DOMAIN metric_counts = {name}
          /\ gauges["metrics_by_name"][<<name>>] = 3

(***************************************************************************)
(* C16: construction without prometheus_client.                            *)
(***************************************************************************)
\* C16: when prometheus_client is missing, constructing the monitor raises
\* ImproperlyConfigured and does nothing else: the registry keeps the
\* collectors it had, no metric is registered, no page is added to the app
\* and the app has no new monitor.
C16_NotInstalled ==
    [][(IsCall("__init__") /\ ~prometheus_client) =>
          /\ last'.exc = "ImproperlyConfigured"
          /\ REGISTRY' = REGISTRY
          /\ pages' = pages
          /\ monitor' = monitor
          /\ UNCHANGED <<counters, gauges, histograms, metric_counts,
                         tokens, messages, events_runtime>>]_vars

\* a construction was attempted without prometheus_client: the collectors
\* registered on import are still there and the app serves no page
C16_Witness ==
    /\ ~prometheus_client
    /\ last.op = "__init__"
    /\ last.exc = "ImproperlyConfigured"
    /\ init_arg = {DefaultConfig}
    /\ REGISTRY = DefaultCollectors
    /\ pages = {}
    /\ monitor = {}

(***************************************************************************)
(* C17: constructing monitors one after another.                           *)
(***************************************************************************)
\* no two collectors of the registry claim the same name
NoDuplicateNames ==
    \A i, j \in DOMAIN REGISTRY :
        i # j => names_of(REGISTRY[i]) \cap names_of(REGISTRY[j]) = {}

\* the fully-qualified names of the metrics of a monitor constructed with
\* this argument
MetricNamesOf(pm_config_arg) ==
    {full_name(c.namespace, c.subsystem, Metrics[i].name) :
        c \in pm_config_arg, i \in DOMAIN Metrics}

\* C17: a construction removes every collector registered before it and
\* then installs the metrics of the new monitor, so that however many
\* monitors are constructed one after another, with configurations giving
\* the same or different names, no construction fails with the registry's
\* duplicate error (ValueError) and no name is ever claimed by two
\* collectors of the registry.
C17_ClearsBeforeInstall ==
    [][/\ NoDuplicateNames'
       /\ (IsCall("__init__") /\ prometheus_client) =>
            /\ last'.exc # "ValueError"
            /\ \A i \in DOMAIN REGISTRY' :
                  REGISTRY'[i].name \in MetricNamesOf(init_arg')
            /\ last'.exc = "None" =>
                  {REGISTRY'[i].name : i \in DOMAIN REGISTRY'}
                     = MetricNamesOf(init_arg')]_vars

\* two monitors were constructed, the second with a configuration that
\* gives the metric names 'faust_app_...': both pages exist and the
\* registry holds the second monitor's metrics
C17_Witness ==
    /\ ncalls["__init__"] = 2
    /\ TotalCalls = 2
    /\ last.op = "__init__"
    /\ last.exc = "None"
    /\ pages = {"/metrics", "/prom"}
    /\ Len(REGISTRY) = Len(Metrics)
    /\ REGISTRY[1].name = "faust_app_messages_received"

(***************************************************************************)
(* C18: the export endpoint.                                               *)
(***************************************************************************)
\* the name the metric kept in this attribute is declared with
DeclaredName(key) == Metrics[CHOOSE i \in DOMAIN Metrics :
                                Metrics[i].key = key].name

\* the samples the body has for the metric family of this name
SamplesOf(body, name) ==
    UNION {body[i].samples : i \in {j \in DOMAIN body : body[j].name = name}}

\* every series of the monitor configured by pm_config is in the body with
\* its present value: counters under <name>_total, gauges under their
\* name, histograms by their count and sum
AllSeriesIn(body, pm_config) ==
    LET full(key) == full_name(pm_config.namespace, pm_config.subsystem,
                               DeclaredName(key))
    IN /\ \A n \in CounterNames : \A k \in DOMAIN counters[n] :
             [name |-> full(n) \o "_total", labels |-> k,
              value |-> counters[n][k]] \in SamplesOf(body, full(n))
       /\ \A n \in GaugeNames : \A k \in DOMAIN gauges[n] :
             [name |-> full(n), labels |-> k, value |-> gauges[n][k]]
               \in SamplesOf(body, full(n))
       /\ \A n \in HistogramNames :
             /\ [name |-> full(n) \o "_count", labels |-> <<>>,
                 value |-> Len(histograms[n])] \in SamplesOf(body, full(n))
             /\ [name |-> full(n) \o "_sum", labels |-> <<>>,
                 value |-> SumSeq(histograms[n])] \in SamplesOf(body, full(n))

\* C18: the app serves the export page at the path of the monitor's
\* configuration; a request to it is answered with status 200 and
\* Content-Type 'text/plain; version=0.0.4; charset=utf-8'; the body has
\* every series of the monitor with the value the handlers last gave it;
\* and a request that follows another request, no handler called in
\* between, gets the same body.
C18_Export ==
    [][/\ \A m \in monitor' : m.pm_config.path \in pages'
       /\ IsCall("metrics_handler") =>
            /\ exported'.status = 200
            /\ exported'.content_type =
                  "text/plain; version=0.0.4; charset=utf-8"
            /\ \A m \in monitor :
                  AllSeriesIn(exported'.body, m.pm_config)
            /\ last.op = "metrics_handler" =>
                  exported'.body = exported.body]_vars

\* a name was counted by 2 and the endpoint was then requested twice: the
\* body has the series with value 2
C18_Witness ==
    /\ last.op = "metrics_handler"
    /\ ncalls["metrics_handler"] = 2
    /\ ncalls["count"] = 1
    /\ exported.status = 200
    /\ \E i \in DOMAIN exported.body :
          /\ exported.body[i].name = "faust_app_metrics_by_name"
          /\ \E s \in exported.body[i].samples : s.value = 2

(***************************************************************************)
(* C19: completion counters and their latency histograms.                  *)
(***************************************************************************)
\* each completion counter equals the number of observations of its
\* latency histogram
CountersInStep ==
    /\ Len(histograms["producer_send_latency"])
         = counters["total_sent_messages"][<<>>]
    /\ Len(histograms["producer_error_send_latency"])
         = counters["total_error_messages_sent"][<<>>]
    /\ Len(histograms["assign_latency"])
         = Series(counters["assignment_operations"], <<COMPLETED>>)
             + Series(counters["assignment_operations"], <<ERROR>>)

\* C19: in every reachable state producer_send_latency has as many
\* observations as total_sent_messages counts, producer_error_send_latency
\* as many as total_error_messages_sent, and assign_latency as many as
\* assignment_operations{completed} and assignment_operations{error}
\* together; a call of on_assignment_completed or on_assignment_error adds
\* one to its own operation series and leaves the other unchanged.
C19_CountersInStep ==
    [][/\ CountersInStep'
       /\ IsCall("on_assignment_completed") =>
            OneMore(counters["assignment_operations"],
                    counters'["assignment_operations"], <<COMPLETED>>)
       /\ IsCall("on_assignment_error") =>
            OneMore(counters["assignment_operations"],
                    counters'["assignment_operations"], <<ERROR>>)]_vars

\* one assignment was reported completed and one failed: two observations
C19_Witness ==
    /\ ncalls["on_assignment_completed"] = 1
    /\ ncalls["on_assignment_error"] = 1
    /\ counters["assignment_operations"] = (<<COMPLETED>> :> 1) @@ (<<ERROR>> :> 1)
    /\ Len(histograms["assign_latency"]) = 2

(***************************************************************************)
(* C20: construction without a configuration.                              *)
(***************************************************************************)
\* C20 as claimed: constructing the monitor without pm_config succeeds and
\* leaves what constructing it with PrometheusMonitorConfig() leaves: the
\* metrics registered under their bare names (empty namespace and
\* subsystem) and the export page at '/metrics'.
C20_NoConfigIsDefault ==
    (last.op = "__init__" /\ init_arg = {} /\ prometheus_client) =>
       /\ last.exc = "None"
       /\ {REGISTRY[i].name : i \in DOMAIN REGISTRY}
            = MetricNamesOf({DefaultConfig})
       /\ "/metrics" \in pages
       /\ monitor = {[pm_config |-> DefaultConfig]}

====
